---------------------------- MODULE Spec2Model ----------------------------
(***************************************************************************)
(* Order execution pipeline of the swap-order execution engine:            *)
(* OrderService (order rows), QueueManager + BullMQ worker (jobs and       *)
(* attempts), ExecutionService (the orchestrator, one step per await),     *)
(* DexService / gateways (quotes and swaps) and WebSocketService (pushes). *)
(*                                                                         *)
(* Numbers are scaled to integers:                                         *)
(*   slippageTolerance is kept in units of 0.05 percent (0.5% = 10),       *)
(*   swap factors and minimum amounts in units of 1/2000 of amountOut.     *)
(* NULL columns are 0 (numbers, timestamps, hashes) or "null" (text).      *)
(***************************************************************************)
EXTENDS Integers, Sequences, FiniteSets, TLC

(***************************************************************************)
(* Bounds of the model.                                                    *)
(***************************************************************************)
\* environment faults (Redis or Postgres call raising) in one behaviour
MaxFaults == 1

\* events recorded in the history of one order
MaxEvents == 2

\* order ids in the order uuidv4 hands them out
OrderSeq == <<"o1">>
OrderIds == {OrderSeq[i] : i \in 1..Len(OrderSeq)}

\* the job createOrder enqueues ("svc", id job-<orderId>) and the job the
\* order:created listener enqueues ("evt", id job-<orderId>-<timestamp>)
JobKinds == {"svc", "evt"}
JobIds == OrderIds \X JobKinds

\* request inputs
AmountInputs == {0, 1}
SlippageInputs == {0, 1}
MaxRetriesInputs == {0, 1}
TokenPairs == {<<"SOL", "USDC">>, <<"SOL", "SOL">>}

\* request inputs on both sides of the documented ranges: slippageTolerance
\* -0.05, 0, 0.05 and 101 percent, maxRetries -1, 0, 1 and 11
WideSlippageInputs == {-1, 0, 1, 2020}
WideMaxRetriesInputs == {-1, 0, 1, 11}

(***************************************************************************)
(* Program constants.                                                      *)
(***************************************************************************)
QUEUE_MAX_ATTEMPTS == 3
DEFAULT_SLIPPAGE == 10
DEFAULT_MAX_RETRIES == 3
FactorScale == 2000
MinSwapFactor == 1998
\* estimatedFee of a quote, in units of 0.00001
EstimatedFee == 5
\* readyState of an open socket
OPEN == 1

\* the events of an order, and one event of an execution
OrderEvents == {"order:created", "order:status-changed", "order:failed",
                "order:confirmed"}
EventTypes == OrderEvents \cup {"execution:started"}
\* the listeners in the order initializeEventListeners registers them, and
\* the events each one listens to
Listeners == <<"order", "execution", "notification">>
ListenerSet == {Listeners[i] : i \in 1..Len(Listeners)}
ListenerEvents == [order |-> OrderEvents,
                   execution |-> {"order:created"},
                   notification |-> EventTypes]
\* the timestamp of an event's payload
EventTimestamps == {1, 2}

\* the gateways in their registration order
DexNames == <<"raydium", "meteora">>
DexSet == {DexNames[i] : i \in 1..Len(DexNames)}

\* generateMockPrice: basePrice plus a random variation
MockPrices == {50, 51}
\* actualAmountOut = amountOut * (0.999 + random * 0.001), random in [0, 1)
SwapFactors == {f \in MinSwapFactor..(FactorScale - 1) : TRUE}

ConcurrencyInputs == {2}

\* inputs of a direct DexService call: the order the gateways were
\* registered in, the amount, and what each getQuote answers (0: it raises)
GatewayOrders == {<<"raydium", "meteora">>, <<"meteora", "raydium">>}
DexAmounts == {1, 2}
QuoteAnswers == [DexSet -> {0} \cup MockPrices]

VARIABLES
    enabled,        \* gateway config.enabled, per venue
    registered,     \* the names in ExecutionService.gateways
    concurrency,    \* env.QUEUE_CONCURRENCY
    nextOrder,      \* number of order ids handed out
    rows,           \* ids that have a row in the orders table
    orders,         \* the orders table
    createPc,       \* position of createOrder for each id
    jobs,           \* the queue's jobs and their processor's position
    swaps,          \* successful executeSwap calls, per order and venue
    cancelPc,       \* position of a cancelOrder call, per order
    incPc,          \* position / read value of an incrementRetryCount call
    connections,    \* WebSocketService.connections
    socketOpen,     \* readyState of the client socket is OPEN
    faults,         \* environment faults so far
    dexCall,        \* the latest direct call of DexService and its result
    hub,            \* a WebSocketService with several orders and sockets
    pool,           \* a worker with several orders: its concurrency, the
                    \* order rows and the jobs
    bus,            \* OrderEventListener.orderHistory and the latest emit
    retry,          \* one order row and the incrementRetryCount calls on it
    fetch           \* a getAllQuotes call whose getQuote calls are in flight

vars == <<enabled, registered, concurrency, nextOrder, rows, orders, createPc, jobs, swaps,
          cancelPc, incPc, connections, socketOpen, faults, dexCall, hub, pool, bus,
          retry, fetch>>

NoError == [kind |-> "null", n |-> 0]

\* requestedSlippage is history, no column: the slippageTolerance of the
\* request the row was created for
NoOrder == [status |-> "none", retryCount |-> 0, maxRetries |-> 0, amount |-> 0,
            slippageTolerance |-> 0, selectedDex |-> "null", executedPrice |-> 0,
            transactionHash |-> 0, errorMessage |-> NoError, confirmedAt |-> 0,
            tokenIn |-> "null", tokenOut |-> "null", requestedSlippage |-> 0]

NoQuote == [dexName |-> "null", amountIn |-> 0, amountOut |-> 0,
            minimumAmountOut |-> 0, pricePerToken |-> 0, estimatedFee |-> 0]

NoSwap == [signature |-> 0, dexName |-> "null", amountOut |-> 0,
           executionPrice |-> 0, executedAt |-> 0]

NoRead == [retryCount |-> 0, maxRetries |-> 0]

\* what the order row held when the current attempt began
NoLease == [status |-> "none", error |-> "null"]

\* a job of the queue together with the locals of its processor
NoJob == [state |-> "none", attemptsMade |-> 0, pc |-> "idle", err |-> "none",
          read |-> NoRead, quote |-> NoQuote, tx |-> NoSwap,
          success |-> FALSE, atLease |-> NoLease, pushes |-> <<>>]

NoDexCall == [op |-> "none", gateways |-> <<>>, amount |-> 0,
              answers |-> <<>>, queried |-> {}, quotes |-> <<>>,
              best |-> NoQuote, error |-> "none"]

\* order ids and client sockets of a WebSocketService used on its own
HubOrders == {"a", "b"}
HubSockets == {"s1", "s2"}
PushStatuses == {"processing", "completed"}

\* the latest sendOrderUpdate call: the socket connections.get returned,
\* whether socket.send delivered the message, and whether the call raised to
\* its caller
NoSend == [op |-> "none", orderId |-> "none", status |-> "none",
           socket |-> "none", delivered |-> FALSE, raised |-> FALSE]

\* connections: the Map from orderId to socket, empty when constructed;
\* closed: the sockets whose readyState is CLOSED
NoHub == [connections |-> [o \in {} |-> "none"], closed |-> {}, last |-> NoSend]

\* the orders of a worker run with several orders, and the values of
\* env.QUEUE_CONCURRENCY it is created with
PoolOrders == {"p1", "p2", "p3"}
PoolConcurrency == {1, 2}

\* the columns and the job fields a run with several orders keeps
PoolColumns == {"status", "retryCount", "maxRetries", "amount", "slippageTolerance"}
PoolRow(order) == [f \in PoolColumns |-> order[f]]
PoolJob(job) == [state |-> job.state, attemptsMade |-> job.attemptsMade,
                 pc |-> job.pc]

\* concurrency 0: the worker has not been created
NoPool == [concurrency |-> 0,
           orders |-> [o \in {} |-> PoolRow(NoOrder)],
           jobs |-> [o \in {} |-> PoolJob(NoJob)]]

\* the latest emit: the listeners it called, those in which an exception
\* was raised, those that logged one, and whether emit raised to its caller
NoEmit == [type |-> "none", orderId |-> "none", called |-> {}, raised |-> {},
           logged |-> {}, propagated |-> FALSE]

NoBus == [orderHistory |-> [o \in OrderIds |-> <<>>], last |-> NoEmit]

\* the incrementRetryCount calls made on one order, and the maxRetries of the
\* request the order is created from (0: the default)
RetryCalls == {"c1", "c2", "c3"}
RetryMaxRetriesInputs == {0, 1, 2}

\* the order row, and for each call made so far its position, the order
\* findById returned to it and the update it made
NoRetry == [row |-> PoolRow(NoOrder), calls |-> [c \in {} |-> NoRead]]

\* a getAllQuotes call: its position, the gateways it queried, the promise
\* of each getQuote call (settled or not, and its answer: a price, or 0 when
\* it raised), whether QUOTE_CONFIG.FETCH_TIMEOUT has passed since the call
\* began, and the quotes it returned
NoFetch == [pc |-> "idle", queried |-> <<>>, amount |-> 0,
            promises |-> [d \in {} |-> 0], deadline |-> FALSE, result |-> <<>>]

TerminalStatuses == {"completed", "failed", "cancelled"}

(***************************************************************************)
(* PostgresOrderRepository                                                 *)
(***************************************************************************)
\* update: a single UPDATE that sets exactly the fields the input defines
RepoUpdate(order, upd) ==
    [f \in DOMAIN order |-> IF f \in DOMAIN upd THEN upd[f] ELSE order[f]]

\* the CHECK constraint on orders.status
StatusCheck == {"pending", "processing", "completed", "failed", "cancelled"}

\* updateStatus that stores the routing stage in place of the status given
UpdateStatusRouting(order, newStatus) == RepoUpdate(order, [status |-> "routing"])

\* updateStatus: update with the status alone
UpdateStatus(order, newStatus) == RepoUpdate(order, [status |-> newStatus])

\* create: INSERT with status pending and retry_count 0
RepoCreate(req) ==
    [NoOrder EXCEPT !.status = "pending",
                    !.tokenIn = req.tokenIn,
                    !.tokenOut = req.tokenOut,
                    !.amount = req.amount,
                    !.slippageTolerance = req.slippageTolerance,
                    !.maxRetries = req.maxRetries,
                    !.retryCount = 0]

(***************************************************************************)
(* OrderService.createOrder                                                *)
(***************************************************************************)
\* validateOrderRequest without its token validation
ValidateOrderRequestNoTokens(req) ==
    /\ ~(req.amount <= 0)
    /\ ~(req.slippageTolerance # 0
         /\ (req.slippageTolerance < 0 \/ req.slippageTolerance > 100 * 20))
    /\ ~(req.maxRetries # 0 /\ req.maxRetries < 0)

\* validateOrderRequest: TRUE when the request is accepted
ValidateOrderRequest(req) ==
    /\ ~(req.amount <= 0)
    /\ ~(req.tokenIn = req.tokenOut)
    /\ ~(req.slippageTolerance # 0
         /\ (req.slippageTolerance < 0 \/ req.slippageTolerance > 100 * 20))
    /\ ~(req.maxRetries # 0 /\ req.maxRetries < 0)

\* the defaults of createOrder: `x || default`
NewOrder(req) ==
    [tokenIn |-> req.tokenIn,
     tokenOut |-> req.tokenOut,
     amount |-> req.amount,
     slippageTolerance |-> IF req.slippageTolerance # 0 THEN req.slippageTolerance
                           ELSE DEFAULT_SLIPPAGE,
     maxRetries |-> IF req.maxRetries # 0 THEN req.maxRetries
                    ELSE DEFAULT_MAX_RETRIES]

Requests ==
    [tokenIn : {p[1] : p \in TokenPairs}, tokenOut : {p[2] : p \in TokenPairs},
     amount : AmountInputs, slippageTolerance : SlippageInputs,
     maxRetries : MaxRetriesInputs]

\* the order of an execute message, which the handler passes on as it is
WideRequests ==
    [tokenIn : {"SOL"}, tokenOut : {"USDC"}, amount : {1},
     slippageTolerance : WideSlippageInputs, maxRetries : WideMaxRetriesInputs]

\* the services constructed with ExecutionService given `gateways`
InitWith(gateways) ==
    /\ enabled \in [DexSet -> BOOLEAN]
    /\ registered = gateways
    /\ concurrency \in ConcurrencyInputs
    /\ nextOrder = 0
    /\ rows = {}
    /\ orders = [o \in OrderIds |-> NoOrder]
    /\ createPc = [o \in OrderIds |-> "none"]
    /\ jobs = [j \in JobIds |-> NoJob]
    /\ swaps = [o \in OrderIds |-> [d \in DexSet |-> 0]]
    /\ cancelPc = [o \in OrderIds |-> "idle"]
    /\ incPc = [o \in OrderIds |-> [pc |-> "idle", read |-> NoRead]]
    /\ connections = [o \in OrderIds |-> FALSE]
    /\ socketOpen = TRUE
    /\ faults = 0
    /\ dexCall = NoDexCall
    /\ hub = NoHub
    /\ pool = NoPool
    /\ bus = NoBus
    /\ retry = NoRetry
    /\ fetch = NoFetch

\* the composition root: ExecutionService is given both gateways
Init == InitWith(DexSet)

\* createOrder up to the INSERT; a rejected request raises a ValidationError
\* before anything is written, which createPc records for the id the call
\* would have been given
CreateOrder(req, via) ==
    /\ nextOrder < Len(OrderSeq)
    /\ via = "ws" => socketOpen
    /\ LET o == OrderSeq[nextOrder + 1] IN
       IF ValidateOrderRequest(req)
       THEN /\ nextOrder' = nextOrder + 1
            /\ rows' = rows \cup {o}
            /\ orders' = [orders EXCEPT ![o] =
                            [RepoCreate(NewOrder(req)) EXCEPT
                                !.requestedSlippage = req.slippageTolerance]]
            /\ createPc' = [createPc EXCEPT ![o] = IF via = "ws" THEN "enqueueWs"
                                                    ELSE "enqueue"]
       ELSE /\ createPc' = [createPc EXCEPT ![o] = "rejected"]
            /\ UNCHANGED <<nextOrder, rows, orders>>
    /\ UNCHANGED <<enabled, registered, fetch, retry, dexCall, hub, pool, bus, concurrency, jobs, swaps, cancelPc, incPc,
                   connections, socketOpen, faults>>

\* createOrder from queueManager.addJob on: the job is accepted, or addJob
\* raises (one fault) and the catch deletes the row again; when the delete
\* raises as well the row stays, and createOrder raises either way
EnqueueJob(o) ==
    /\ createPc[o] \in {"enqueue", "enqueueWs"}
    /\ \/ /\ jobs' = [jobs EXCEPT ![<<o, "svc">>] =
                        IF @.state = "none" THEN [@ EXCEPT !.state = "waiting"] ELSE @]
          /\ createPc' = [createPc EXCEPT ![o] =
                            IF @ = "enqueueWs" THEN "register" ELSE "done"]
          /\ UNCHANGED <<rows, orders, faults>>
       \/ /\ faults < MaxFaults
          /\ faults' = faults + 1
          /\ \/ /\ rows' = rows \ {o}
                /\ orders' = [orders EXCEPT ![o] = NoOrder]
             \/ UNCHANGED <<rows, orders>>
          /\ createPc' = [createPc EXCEPT ![o] = "failed"]
          /\ UNCHANGED jobs
    /\ UNCHANGED <<enabled, registered, fetch, retry, dexCall, hub, pool, bus, concurrency, nextOrder, swaps, cancelPc, incPc,
                   connections, socketOpen>>

(***************************************************************************)
(* WebSocket handler and WebSocketService                                  *)
(***************************************************************************)
\* handleOrderExecution after createOrder returned: registerConnection
RegisterConnection(o) ==
    /\ createPc[o] = "register"
    /\ connections' = [connections EXCEPT ![o] = TRUE]
    /\ createPc' = [createPc EXCEPT ![o] = "done"]
    /\ UNCHANGED <<enabled, registered, fetch, retry, dexCall, hub, pool, bus, concurrency, nextOrder, rows, orders, jobs, swaps,
                   cancelPc, incPc, socketOpen, faults>>

\* the socket's close event: removeConnectionsBySocket
SocketClose ==
    /\ socketOpen
    /\ socketOpen' = FALSE
    /\ connections' = [o \in OrderIds |-> FALSE]
    /\ UNCHANGED <<enabled, registered, fetch, retry, dexCall, hub, pool, bus, concurrency, nextOrder, rows, orders, createPc, jobs,
                   swaps, cancelPc, incPc, faults>>

\* sendOrderUpdate: the pushes of the current attempt after sending `status`
SendOrderUpdate(o, pushes, status) ==
    IF connections[o] /\ socketOpen THEN Append(pushes, status) ELSE pushes

(***************************************************************************)
(* ExecutionEventListener                                                  *)
(***************************************************************************)
\* the listeners emit calls for an event of type `type`, in their order
ListenersFor(type) ==
    SelectSeq(Listeners, LAMBDA l : type \in ListenerEvents[l])

\* a listener that is not an async function and has no try/catch: an
\* exception raised in it is thrown into emit
ListenerCallNoCatch(l, fails) == IF l \in fails THEN "thrown" ELSE "ok"

\* one listener called by emit: an async function whose handler wraps its
\* whole body in try/catch and logs what it catches
ListenerCall(l, fails) == IF l \in fails THEN "caught" ELSE "ok"

\* emit: calls the listeners from the i-th on, one after the other; an
\* exception thrown into emit ends it and reaches its caller
RECURSIVE RunListeners(_, _, _, _)
RunListeners(ls, i, fails, out) ==
    IF i > Len(ls) THEN out
    ELSE LET l == ls[i]
             res == ListenerCall(l, fails)
             next == [out EXCEPT !.called = @ \cup {l},
                                 !.raised = IF l \in fails THEN @ \cup {l} ELSE @,
                                 !.logged = IF res = "caught" THEN @ \cup {l} ELSE @]
         IN IF res = "thrown" THEN [next EXCEPT !.propagated = TRUE]
            ELSE RunListeners(ls, i + 1, fails, next)

\* the name OrderEventListener records an event under
HistoryEventType(type) ==
    IF type = "order:created" THEN "ORDER_CREATED"
    ELSE IF type = "order:status-changed" THEN "ORDER_STATUS_CHANGED"
    ELSE IF type = "order:failed" THEN "ORDER_FAILED"
    ELSE "ORDER_CONFIRMED"

\* addToHistory
AddToHistory(history, o, record) == [history EXCEPT ![o] = Append(@, record)]

\* eventEmitter.emit(type, payload) for order o, by whatever code holds the
\* emitter; `fails` are the listeners in whose handler an exception is
\* raised. The order listener records the event, the execution listener
\* enqueues a job with an id of its own for an order:created event, the
\* notification listener only logs.
EmitEvent(type, o, ts, fails) ==
    /\ Len(bus.orderHistory[o]) < MaxEvents
    /\ type = "order:created" => jobs[<<o, "evt">>].state = "none"
    /\ LET out == RunListeners(ListenersFor(type), 1, fails,
                               [NoEmit EXCEPT !.type = type, !.orderId = o])
           done == out.called \ out.raised
       IN /\ bus' = [orderHistory |->
                        IF "order" \in done
                        THEN AddToHistory(bus.orderHistory, o,
                                 [eventType |-> HistoryEventType(type),
                                  timestamp |-> ts])
                        ELSE bus.orderHistory,
                     last |-> out]
          /\ jobs' = IF "execution" \in done
                     THEN [jobs EXCEPT ![<<o, "evt">>].state = "waiting"]
                     ELSE jobs
    /\ UNCHANGED <<enabled, registered, fetch, retry, dexCall, hub, pool, concurrency, nextOrder, rows, orders,
                   createPc, swaps, cancelPc, incPc, connections, socketOpen, faults>>

\* an order:created event for a created order, with no listener raising
HandleOrderCreated(o) ==
    /\ o \in rows
    /\ createPc[o] \in {"register", "done"}
    /\ EmitEvent("order:created", o, 1, {})

(***************************************************************************)
(* The queue and its worker (BullMQ)                                       *)
(***************************************************************************)
ActiveJobs == {j \in JobIds : jobs[j].state = "active"}

\* the processor raised `err` after the pushes `pushes`
AttemptFailed(job, err, pushes) ==
    [job EXCEPT !.pc = "raised", !.err = err, !.pushes = pushes]

\* the processor returned after the pushes `pushes`
AttemptCompleted(job, pushes) ==
    [job EXCEPT !.pc = "returned", !.pushes = pushes]

\* a queue that schedules every failed attempt again
SettledNoLimit(job) ==
    [NoJob EXCEPT !.attemptsMade = job.attemptsMade + 1,
                  !.state = IF job.pc = "returned" THEN "completed" ELSE "waiting"]

\* the queue's state of a job whose processor ended: completed when it
\* returned; when it raised, waiting for the next attempt while attempts
\* remain and failed after the last one
Settled(job) ==
    [NoJob EXCEPT !.attemptsMade = job.attemptsMade + 1,
                  !.state = IF job.pc = "returned" THEN "completed"
                            ELSE IF job.attemptsMade + 1 < QUEUE_MAX_ATTEMPTS
                                 THEN "waiting" ELSE "failed"]

\* the worker hands the outcome of the attempt to the queue
Settle(j) ==
    /\ jobs[j].state = "active" /\ jobs[j].pc \in {"returned", "raised"}
    /\ jobs' = [jobs EXCEPT ![j] = Settled(@)]
    /\ UNCHANGED <<enabled, registered, fetch, retry, dexCall, hub, pool, bus, concurrency, nextOrder, rows, orders, createPc, swaps,
                   cancelPc, incPc, connections, socketOpen, faults>>

\* the worker picks a waiting job up
Lease(j) ==
    /\ jobs[j].state = "waiting"
    /\ Cardinality(ActiveJobs) < concurrency
    /\ jobs' = [jobs EXCEPT ![j] = [NoJob EXCEPT !.state = "active",
                                                 !.attemptsMade = jobs[j].attemptsMade,
                                                 !.pc = "start",
                                                 !.atLease =
                                                    [status |-> orders[j[1]].status,
                                                     error |-> orders[j[1]].errorMessage.kind]]]
    /\ UNCHANGED <<enabled, registered, fetch, retry, dexCall, hub, pool, bus, concurrency, nextOrder, rows, orders, createPc, swaps,
                   cancelPc, incPc, connections, socketOpen, faults>>

(***************************************************************************)
(* ExecutionService.processOrderExecutionJob / executeOrder                *)
(***************************************************************************)
\* job.updateProgress(10), then the processing push
Start(j) ==
    /\ jobs[j].state = "active" /\ jobs[j].pc = "start"
    /\ \/ /\ jobs' = [jobs EXCEPT ![j].pc = "load",
                                  ![j].pushes = SendOrderUpdate(j[1], @, "processing")]
          /\ UNCHANGED faults
       \/ /\ faults < MaxFaults
          /\ faults' = faults + 1
          /\ jobs' = [jobs EXCEPT ![j] = AttemptFailed(@, "progress",
                         SendOrderUpdate(j[1], @.pushes, "failed"))]
    /\ UNCHANGED <<enabled, registered, fetch, retry, dexCall, hub, pool, bus, concurrency, nextOrder, rows, orders, createPc, swaps,
                   cancelPc, incPc, connections, socketOpen>>

\* validateOrderForExecution: the error it raises, "none" when it passes
ValidateOrderForExecution(order) ==
    IF order.status = "completed" THEN "completed"
    ELSE IF order.status = "failed" /\ order.retryCount >= order.maxRetries
         THEN "maxretries"
    ELSE IF order.amount <= 0 THEN "amount"
    ELSE "none"

\* executeOrder 1-2: fetch the order and validate it
Load(j) ==
    /\ jobs[j].state = "active" /\ jobs[j].pc = "load"
    /\ LET o == j[1]
           err == IF o \notin rows THEN "notfound"
                  ELSE ValidateOrderForExecution(orders[o])
       IN jobs' = [jobs EXCEPT ![j].pc = IF err = "none" THEN "mark" ELSE "failRead",
                               ![j].err = err]
    /\ UNCHANGED <<enabled, registered, fetch, retry, dexCall, hub, pool, bus, concurrency, nextOrder, rows, orders, createPc, swaps,
                   cancelPc, incPc, connections, socketOpen, faults>>

\* executeOrder 3: updateOrderStatus(orderId, 'processing')
Mark(j) ==
    /\ jobs[j].state = "active" /\ jobs[j].pc = "mark"
    /\ LET o == j[1] IN
       \/ /\ o \in rows
          /\ orders' = [orders EXCEPT ![o] = UpdateStatus(@, "processing")]
          /\ jobs' = [jobs EXCEPT ![j].pc = "quote"]
          /\ UNCHANGED faults
       \/ /\ o \notin rows
          /\ jobs' = [jobs EXCEPT ![j].pc = "failRead", ![j].err = "notfound"]
          /\ UNCHANGED <<orders, faults>>
       \/ /\ faults < MaxFaults
          /\ faults' = faults + 1
          /\ jobs' = [jobs EXCEPT ![j].pc = "failRead", ![j].err = "db"]
          /\ UNCHANGED orders
    /\ UNCHANGED <<enabled, registered, fetch, retry, dexCall, hub, pool, bus, concurrency, nextOrder, rows, createPc, swaps,
                   cancelPc, incPc, connections, socketOpen>>

(***************************************************************************)
(* Gateways and DexService                                                 *)
(***************************************************************************)
\* getQuote of an enabled gateway at mock price `price`
GetQuote(d, order, price) ==
    [dexName |-> d,
     amountIn |-> order.amount,
     amountOut |-> order.amount * price,
     minimumAmountOut |-> (order.amount * price) * (FactorScale - order.slippageTolerance),
     pricePerToken |-> price,
     estimatedFee |-> EstimatedFee]

\* getAllQuotes: the gateways it queries, in registration order
EnabledGateways(gateways) == SelectSeq(gateways, LAMBDA d : enabled[d])

\* gateway.getQuote returned a quote: the gateway is enabled and its answer
\* is a price (answer 0: the call raised)
QuoteSucceeded(d, answers) == enabled[d] /\ answers[d] # 0

\* Promise.all over getQuote calls that are not caught one by one: one
\* failure fails them all
AllQuotesFromAbort(queried, i, order, answers) ==
    IF \E k \in i..Len(queried) : ~QuoteSucceeded(queried[k], answers)
    THEN <<>>
    ELSE [k \in 1..(Len(queried) - i + 1) |->
            GetQuote(queried[k + i - 1], order, answers[queried[k + i - 1]])]

\* getAllQuotes: the quotes of the queried gateways from the i-th on, each
\* getQuote caught on its own and the failed ones filtered out
RECURSIVE AllQuotesFrom(_, _, _, _)
AllQuotesFrom(queried, i, order, answers) ==
    IF i > Len(queried) THEN <<>>
    ELSE IF QuoteSucceeded(queried[i], answers)
         THEN <<GetQuote(queried[i], order, answers[queried[i]])>>
              \o AllQuotesFrom(queried, i + 1, order, answers)
         ELSE AllQuotesFrom(queried, i + 1, order, answers)

\* getAllQuotes that asks every registered gateway, whatever its config
GetAllQuotesOfAll(gateways, order, answers) ==
    [k \in 1..Len(gateways) |-> GetQuote(gateways[k], order, answers[gateways[k]])]

GetAllQuotes(gateways, order, answers) ==
    AllQuotesFrom(EnabledGateways(gateways), 1, order, answers)

\* Array.prototype.sort with (a, b) => b.amountOut - a.amountOut: stable,
\* descending in amountOut
RECURSIVE InsertQuote(_, _)
InsertQuote(q, sorted) ==
    IF sorted = <<>> THEN <<q>>
    ELSE IF Head(sorted).amountOut >= q.amountOut
         THEN <<Head(sorted)>> \o InsertQuote(q, Tail(sorted))
         ELSE <<q>> \o sorted

RECURSIVE SortQuotes(_)
SortQuotes(qs) ==
    IF qs = <<>> THEN <<>>
    ELSE InsertQuote(qs[Len(qs)], SortQuotes(SubSeq(qs, 1, Len(qs) - 1)))

\* getBestQuote on a non-empty list of quotes
GetBestQuote(allQuotes) == SortQuotes(allQuotes)[1]

\* executeSwap without its validation of the slippage tolerance
ExecuteSwapNoCheck(quote, f, signature) ==
    IF ~enabled[quote.dexName] THEN NoSwap
    ELSE [signature |-> signature,
          dexName |-> quote.dexName,
          amountOut |-> quote.amountOut * f,
          executionPrice |-> (quote.amountOut * f) \div quote.amountIn,
          executedAt |-> signature]

\* executeSwap of gateway quote.dexName with random factor f: the swap
\* transaction, or NoSwap when the gateway raises
ExecuteSwap(quote, f, signature) ==
    IF ~enabled[quote.dexName] THEN NoSwap
    ELSE IF quote.amountOut * f < quote.minimumAmountOut THEN NoSwap
    ELSE [signature |-> signature,
          dexName |-> quote.dexName,
          amountOut |-> quote.amountOut * f,
          executionPrice |-> (quote.amountOut * f) \div quote.amountIn,
          executedAt |-> signature]

\* executeOrder 4: getBestQuote
Quote(j) ==
    /\ jobs[j].state = "active" /\ jobs[j].pc = "quote"
    /\ \E prices \in [DexSet -> MockPrices] :
         LET allQuotes == GetAllQuotes(DexNames, orders[j[1]], prices) IN
         IF allQuotes = <<>>
         THEN jobs' = [jobs EXCEPT ![j].pc = "failRead", ![j].err = "noquotes"]
         ELSE jobs' = [jobs EXCEPT ![j].pc = "swap",
                                   ![j].quote = GetBestQuote(allQuotes)]
    /\ UNCHANGED <<enabled, registered, fetch, retry, dexCall, hub, pool, bus, concurrency, nextOrder, rows, orders, createPc, swaps,
                   cancelPc, incPc, connections, socketOpen, faults>>

TotalSwaps(o) == swaps[o]["raydium"] + swaps[o]["meteora"]

\* executeSwapTransaction that calls executeSwap without looking the gateway
\* up in this.gateways
ExecuteSwapTransactionNoLookup(gateways, quote, f, signature) ==
    ExecuteSwap(quote, f, signature)

\* executeSwapTransaction: null (NoSwap) when this.gateways has no gateway
\* under the name of the quote or when executeSwap raises
ExecuteSwapTransaction(gateways, quote, f, signature) ==
    IF quote.dexName \notin gateways THEN NoSwap
    ELSE ExecuteSwap(quote, f, signature)

\* executeOrder 5: executeSwapTransaction
Swap(j) ==
    /\ jobs[j].state = "active" /\ jobs[j].pc = "swap"
    /\ \E f \in SwapFactors :
         LET o == j[1]
             tx == ExecuteSwapTransaction(registered, jobs[j].quote, f,
                                          TotalSwaps(o) + 1)
         IN IF tx = NoSwap
            THEN /\ jobs' = [jobs EXCEPT ![j].pc = "failRead", ![j].err = "swap"]
                 /\ UNCHANGED swaps
            ELSE /\ jobs' = [jobs EXCEPT ![j].pc = "final", ![j].tx = tx]
                 /\ swaps' = [swaps EXCEPT ![o][tx.dexName] = @ + 1]
    /\ UNCHANGED <<enabled, registered, fetch, retry, dexCall, hub, pool, bus, concurrency, nextOrder, rows, orders, createPc,
                   cancelPc, incPc, connections, socketOpen, faults>>

\* the update of executeOrder 6 without the transaction hash
CompletedUpdateNoHash(quote, tx) ==
    [status |-> "completed",
     selectedDex |-> quote.dexName,
     executedPrice |-> tx.executionPrice,
     confirmedAt |-> tx.executedAt]

\* the update input of executeOrder 6
CompletedUpdate(quote, tx) ==
    [status |-> "completed",
     selectedDex |-> quote.dexName,
     executedPrice |-> tx.executionPrice,
     transactionHash |-> tx.signature,
     confirmedAt |-> tx.executedAt]

\* executeOrder 6: updateOrder with the execution results
Final(j) ==
    /\ jobs[j].state = "active" /\ jobs[j].pc = "final"
    /\ LET o == j[1] IN
       \/ /\ o \in rows
          /\ orders' = [orders EXCEPT ![o] =
                          RepoUpdate(@, CompletedUpdate(jobs[j].quote, jobs[j].tx))]
          /\ jobs' = [jobs EXCEPT ![j].pc = "finish", ![j].success = TRUE]
          /\ UNCHANGED faults
       \/ /\ o \notin rows
          /\ jobs' = [jobs EXCEPT ![j].pc = "failRead", ![j].err = "notfound"]
          /\ UNCHANGED <<orders, faults>>
       \/ /\ faults < MaxFaults
          /\ faults' = faults + 1
          /\ jobs' = [jobs EXCEPT ![j].pc = "failRead", ![j].err = "db"]
          /\ UNCHANGED orders
    /\ UNCHANGED <<enabled, registered, fetch, retry, dexCall, hub, pool, bus, concurrency, nextOrder, rows, createPc, swaps,
                   cancelPc, incPc, connections, socketOpen>>

\* handleExecutionFailure: getOrderById
FailRead(j) ==
    /\ jobs[j].state = "active" /\ jobs[j].pc = "failRead"
    /\ LET o == j[1] IN
       IF o \in rows
       THEN jobs' = [jobs EXCEPT ![j].pc = "failWrite",
                                 ![j].read = [retryCount |-> orders[o].retryCount,
                                              maxRetries |-> orders[o].maxRetries]]
       ELSE jobs' = [jobs EXCEPT ![j].pc = "finish"]
    /\ UNCHANGED <<enabled, registered, fetch, retry, dexCall, hub, pool, bus, concurrency, nextOrder, rows, orders, createPc, swaps,
                   cancelPc, incPc, connections, socketOpen, faults>>

\* handleExecutionFailure that marks the order failed on every failure
FailureUpdateTerminal(read) ==
    [status |-> "failed",
     errorMessage |-> [kind |-> "exhausted", n |-> read.maxRetries]]

\* handleExecutionFailure that records the error and leaves the status
FailureUpdateNoStatus(read) ==
    [errorMessage |-> [kind |-> "attempt", n |-> read.retryCount + 1]]

\* the update input handleExecutionFailure builds from the order it read
FailureUpdate(read) ==
    IF read.retryCount < read.maxRetries
    THEN [status |-> "pending",
          errorMessage |-> [kind |-> "attempt", n |-> read.retryCount + 1]]
    ELSE [status |-> "failed",
          errorMessage |-> [kind |-> "exhausted", n |-> read.maxRetries]]

\* handleExecutionFailure: updateOrder; when it raises, executeOrder raises
\* and the processor's catch sends the failed push and raises again
FailWrite(j) ==
    /\ jobs[j].state = "active" /\ jobs[j].pc = "failWrite"
    /\ LET o == j[1] IN
       \/ /\ o \in rows
          /\ orders' = [orders EXCEPT ![o] = RepoUpdate(@, FailureUpdate(jobs[j].read))]
          /\ jobs' = [jobs EXCEPT ![j].pc = "finish"]
          /\ UNCHANGED faults
       \/ /\ \/ o \notin rows /\ UNCHANGED faults
             \/ faults < MaxFaults /\ faults' = faults + 1
          /\ jobs' = [jobs EXCEPT ![j] = AttemptFailed(@, "db",
                         SendOrderUpdate(o, @.pushes, "failed"))]
          /\ UNCHANGED orders
    /\ UNCHANGED <<enabled, registered, fetch, retry, dexCall, hub, pool, bus, concurrency, nextOrder, rows, createPc, swaps,
                   cancelPc, incPc, connections, socketOpen>>

\* the pushes of processOrderExecutionJob after executeOrder returned
FinishPushes(o, job) ==
    IF job.success
    THEN SendOrderUpdate(o, job.pushes, "completed")
    ELSE SendOrderUpdate(o, SendOrderUpdate(o, job.pushes, "failed"), "failed")

\* processOrderExecutionJob after executeOrder returned: job.updateProgress(100),
\* the result push, and the return or raise that ends the attempt
Finish(j) ==
    /\ jobs[j].state = "active" /\ jobs[j].pc = "finish"
    /\ LET o == j[1] IN
       \/ /\ jobs' = [jobs EXCEPT ![j] =
                        IF @.success THEN AttemptCompleted(@, FinishPushes(o, @))
                        ELSE AttemptFailed(@, @.err, FinishPushes(o, @))]
          /\ UNCHANGED faults
       \/ /\ faults < MaxFaults
          /\ faults' = faults + 1
          /\ jobs' = [jobs EXCEPT ![j] = AttemptFailed(@, "progress",
                         SendOrderUpdate(o, @.pushes, "failed"))]
    /\ UNCHANGED <<enabled, registered, fetch, retry, dexCall, hub, pool, bus, concurrency, nextOrder, rows, orders, createPc, swaps,
                   cancelPc, incPc, connections, socketOpen>>

(***************************************************************************)
(* OrderService.cancelOrder and incrementRetryCount                        *)
(***************************************************************************)
\* cancelOrder without its check for a completed order
CancelCheckNoConflict(o) ==
    IF o \notin rows THEN "notfound"
    ELSE IF orders[o].status = "failed" THEN "unchanged"
    ELSE "write"

\* cancelOrder: the checks on the order findById returned; "write" when the
\* call goes on to the update, else the way the call ends
CancelCheck(o) ==
    IF o \notin rows THEN "notfound"
    ELSE IF orders[o].status = "completed" THEN "conflict"
    ELSE IF orders[o].status = "failed" THEN "unchanged"
    ELSE "write"

\* cancelOrderHandler / handleHttpError: the status code of the reply to a
\* cancelOrder call that ended as `result`
CancelStatusCode(result) ==
    IF result = "notfound" THEN 404
    ELSE IF result = "conflict" THEN 409
    ELSE 200

\* cancelOrder: findById and the checks on the order it read; cancelPc keeps
\* the way the latest call ended
CancelRead(o) ==
    /\ cancelPc[o] # "write"
    /\ cancelPc' = [cancelPc EXCEPT ![o] = CancelCheck(o)]
    /\ UNCHANGED <<enabled, registered, fetch, retry, dexCall, hub, pool, bus, concurrency, nextOrder, rows, orders, createPc, jobs,
                   swaps, incPc, connections, socketOpen, faults>>

\* the update input of cancelOrder
CancelUpdate == [status |-> "failed",
                 errorMessage |-> [kind |-> "cancelled", n |-> 0]]

\* cancelOrder: the update, which raises NotFound when the row is gone
CancelWrite(o) ==
    /\ cancelPc[o] = "write"
    /\ cancelPc' = [cancelPc EXCEPT ![o] = IF o \in rows THEN "cancelled"
                                           ELSE "notfound"]
    /\ orders' = IF o \in rows
                 THEN [orders EXCEPT ![o] = RepoUpdate(@, CancelUpdate)]
                 ELSE orders
    /\ UNCHANGED <<enabled, registered, fetch, retry, dexCall, hub, pool, bus, concurrency, nextOrder, rows, createPc, jobs,
                   swaps, incPc, connections, socketOpen, faults>>

\* incrementRetryCount: findById
IncrementRead(o) ==
    /\ incPc[o].pc = "idle"
    /\ o \in rows
    /\ incPc' = [incPc EXCEPT ![o] = [pc |-> "write",
                                      read |-> [retryCount |-> orders[o].retryCount,
                                                maxRetries |-> orders[o].maxRetries]]]
    /\ UNCHANGED <<enabled, registered, fetch, retry, dexCall, hub, pool, bus, concurrency, nextOrder, rows, orders, createPc, jobs,
                   swaps, cancelPc, connections, socketOpen, faults>>

\* incrementRetryCount without its check of the limit
IncrementUpdateNoLimit(read) == [retryCount |-> read.retryCount + 1]

\* the update input incrementRetryCount builds from the order it read
IncrementUpdate(read) ==
    IF read.retryCount + 1 > read.maxRetries
    THEN [status |-> "failed",
          errorMessage |-> [kind |-> "maxretries", n |-> read.maxRetries]]
    ELSE [retryCount |-> read.retryCount + 1]

\* incrementRetryCount: the update
IncrementWrite(o) ==
    /\ incPc[o].pc = "write"
    /\ incPc' = [incPc EXCEPT ![o] = [pc |-> "idle", read |-> NoRead]]
    /\ orders' = IF o \in rows
                 THEN [orders EXCEPT ![o] = RepoUpdate(@, IncrementUpdate(incPc[o].read))]
                 ELSE orders
    /\ UNCHANGED <<enabled, registered, fetch, retry, dexCall, hub, pool, bus, concurrency, nextOrder, rows, createPc, jobs,
                   swaps, cancelPc, connections, socketOpen, faults>>

(***************************************************************************)
(* HTTP handlers                                                           *)
(***************************************************************************)
\* handleHttpError: the status code for an error of class `error`
HandleHttpError(error) ==
    IF error \in {"ValidationError", "BadRequestError"} THEN 400
    ELSE IF error = "NotFoundError" THEN 404
    ELSE IF error = "ConflictError" THEN 409
    ELSE IF error = "ServiceUnavailableError" THEN 503
    ELSE 500

\* getOrderById: the order, or null (NoOrder) when findById finds no row
GetOrderById(o) == IF o \in rows THEN orders[o] ELSE NoOrder

\* getOrderHandler: the reply to GET /api/orders/:orderId in this state
GetOrderHandler(o) == [code |-> 200, data |-> GetOrderById(o)]

\* the class of the error a createOrder call that ended as `pc` raised:
\* validateOrderRequest raises a ValidationError, the catch of the enqueue
\* raises a plain Error
CreateOrderError(pc) ==
    IF pc = "rejected" THEN "ValidationError"
    ELSE IF pc = "failed" THEN "Error"
    ELSE "none"

\* createOrderHandler: the status code of the reply to a createOrder call
\* that ended as `pc`
CreateOrderHandler(pc) ==
    IF CreateOrderError(pc) = "none" THEN 201
    ELSE HandleHttpError(CreateOrderError(pc))

(***************************************************************************)
(* DexService called on its own                                            *)
(***************************************************************************)
\* the order a direct call quotes for
DexOrder(amount) ==
    [NoOrder EXCEPT !.amount = amount, !.slippageTolerance = DEFAULT_SLIPPAGE]

\* getAllQuotes(tokenIn, tokenOut, amountIn, slippageTolerance)
CallGetAllQuotes(gateways, amount, answers) ==
    /\ dexCall' = [NoDexCall EXCEPT
                     !.op = "getAllQuotes",
                     !.gateways = gateways, !.amount = amount, !.answers = answers,
                     !.queried = {d \in DexSet : \E k \in 1..Len(EnabledGateways(gateways)) :
                                                    EnabledGateways(gateways)[k] = d},
                     !.quotes = GetAllQuotes(gateways, DexOrder(amount), answers)]
    /\ UNCHANGED <<enabled, registered, fetch, retry, hub, pool, bus, concurrency, nextOrder, rows, orders, createPc, jobs,
                   swaps, cancelPc, incPc, connections, socketOpen, faults>>

\* getBestQuote(tokenIn, tokenOut, amountIn, slippageTolerance): raises
\* ServiceUnavailableError without quotes, else returns the first of the
\* sorted quotes and the sorted list (allQuotes)
CallGetBestQuote(gateways, amount, answers) ==
    /\ LET allQuotes == GetAllQuotes(gateways, DexOrder(amount), answers)
           call == [NoDexCall EXCEPT
                      !.op = "getBestQuote",
                      !.gateways = gateways, !.amount = amount, !.answers = answers]
       IN dexCall' = IF allQuotes = <<>>
                     THEN [call EXCEPT !.error = "unavailable"]
                     ELSE [call EXCEPT !.quotes = SortQuotes(allQuotes),
                                       !.best = GetBestQuote(allQuotes)]
    /\ UNCHANGED <<enabled, registered, fetch, retry, hub, pool, bus, concurrency, nextOrder, rows, orders, createPc, jobs,
                   swaps, cancelPc, incPc, connections, socketOpen, faults>>

(***************************************************************************)
(* WebSocketService called on its own                                      *)
(***************************************************************************)
\* connections.get(orderId) on hub h ("none": undefined)
HubGet(h, o) == IF o \in DOMAIN h.connections THEN h.connections[o] ELSE "none"

\* connections.delete(orderId)
HubDelete(c, o) == [p \in DOMAIN c \ {o} |-> c[p]]

\* socket.readyState: OPEN, or 3 (CLOSED)
HubReadyState(h, s) == IF s \in h.closed THEN 3 ELSE OPEN

\* sendOrderUpdate whose socket.send is not caught: the error reaches the
\* caller and the entry stays
SendOrderUpdateOnNoCatch(h, o, status, sendRaises) ==
    LET socket == HubGet(h, o)
        call == [NoSend EXCEPT !.op = "sendOrderUpdate", !.orderId = o,
                               !.status = status, !.socket = socket]
    IN IF socket = "none" \/ HubReadyState(h, socket) # OPEN
       THEN [h EXCEPT !.last = call]
       ELSE IF sendRaises
            THEN [h EXCEPT !.last = [call EXCEPT !.raised = TRUE]]
            ELSE [h EXCEPT !.last = [call EXCEPT !.delivered = TRUE]]

\* sendOrderUpdate(orderId, status) on hub h: returns without sending when
\* the orderId has no entry or its socket is not OPEN; when socket.send
\* raises, the catch deletes the entry of the orderId
SendOrderUpdateOn(h, o, status, sendRaises) ==
    LET socket == HubGet(h, o)
        call == [NoSend EXCEPT !.op = "sendOrderUpdate", !.orderId = o,
                               !.status = status, !.socket = socket]
    IN IF socket = "none" \/ HubReadyState(h, socket) # OPEN
       THEN [h EXCEPT !.last = call]
       ELSE IF sendRaises
            THEN [h EXCEPT !.connections = HubDelete(@, o), !.last = call]
            ELSE [h EXCEPT !.last = [call EXCEPT !.delivered = TRUE]]

HubSendOrderUpdate(o, status, sendRaises) ==
    /\ hub' = SendOrderUpdateOn(hub, o, status, sendRaises)
    /\ UNCHANGED <<enabled, registered, fetch, retry, dexCall, pool, bus, concurrency, nextOrder, rows, orders, createPc,
                   jobs, swaps, cancelPc, incPc, connections, socketOpen, faults>>

\* registerConnection(orderId, socket)
HubRegisterConnection(o, s) ==
    /\ hub' = [hub EXCEPT !.connections = (o :> s) @@ @]
    /\ UNCHANGED <<enabled, registered, fetch, retry, dexCall, pool, bus, concurrency, nextOrder, rows, orders, createPc,
                   jobs, swaps, cancelPc, incPc, connections, socketOpen, faults>>

\* a socket leaves the OPEN state (readyState 3, CLOSED)
HubSocketEnds(s) ==
    /\ HubReadyState(hub, s) = OPEN
    /\ hub' = [hub EXCEPT !.closed = @ \cup {s}]
    /\ UNCHANGED <<enabled, registered, fetch, retry, dexCall, pool, bus, concurrency, nextOrder, rows, orders, createPc,
                   jobs, swaps, cancelPc, incPc, connections, socketOpen, faults>>

\* removeConnectionsBySocket(socket), called by the close handler
HubRemoveConnectionsBySocket(s) ==
    /\ HubReadyState(hub, s) # OPEN
    /\ hub' = [hub EXCEPT !.connections =
                  [o \in {p \in DOMAIN @ : @[p] # s} |-> @[o]]]
    /\ UNCHANGED <<enabled, registered, fetch, retry, dexCall, pool, bus, concurrency, nextOrder, rows, orders, createPc,
                   jobs, swaps, cancelPc, incPc, connections, socketOpen, faults>>

(***************************************************************************)
(* One worker and several orders                                           *)
(***************************************************************************)
\* the request of every order of the pool
PoolRequest == [tokenIn |-> "SOL", tokenOut |-> "USDC", amount |-> 1,
                slippageTolerance |-> 0, maxRetries |-> 0]

PoolActive == {o \in DOMAIN pool.jobs : pool.jobs[o].state = "active"}

\* createWorker with env.QUEUE_CONCURRENCY = c
PoolCreateWorker(c) ==
    /\ pool.concurrency = 0
    /\ pool' = [pool EXCEPT !.concurrency = c]
    /\ UNCHANGED <<enabled, registered, fetch, retry, dexCall, hub, bus, concurrency, nextOrder, rows, orders,
                   createPc, jobs, swaps, cancelPc, incPc, connections, socketOpen,
                   faults>>

\* createOrder of a valid request: the row and its job
PoolCreateOrder(o) ==
    /\ o \notin DOMAIN pool.orders
    /\ pool' = [pool EXCEPT
                  !.orders = (o :> PoolRow(RepoCreate(NewOrder(PoolRequest)))) @@ @,
                  !.jobs = (o :> [PoolJob(NoJob) EXCEPT !.state = "waiting"]) @@ @]
    /\ UNCHANGED <<enabled, registered, fetch, retry, dexCall, hub, bus, concurrency, nextOrder, rows, orders,
                   createPc, jobs, swaps, cancelPc, incPc, connections, socketOpen,
                   faults>>

\* the worker picks a waiting job up while fewer than `concurrency` are
\* active
PoolLease(o) ==
    /\ o \in DOMAIN pool.jobs
    /\ pool.jobs[o].state = "waiting"
    /\ Cardinality(PoolActive) < pool.concurrency
    /\ pool' = [pool EXCEPT !.jobs[o].state = "active", !.jobs[o].pc = "mark"]
    /\ UNCHANGED <<enabled, registered, fetch, retry, dexCall, hub, bus, concurrency, nextOrder, rows, orders,
                   createPc, jobs, swaps, cancelPc, incPc, connections, socketOpen,
                   faults>>

\* executeOrder 1-3: the order is fetched, validated and set to processing
PoolMark(o) ==
    /\ o \in DOMAIN pool.jobs
    /\ pool.jobs[o].state = "active" /\ pool.jobs[o].pc = "mark"
    /\ IF ValidateOrderForExecution(pool.orders[o]) = "none"
       THEN pool' = [pool EXCEPT !.orders[o] = UpdateStatus(@, "processing"),
                                 !.jobs[o].pc = "quote"]
       ELSE pool' = [pool EXCEPT !.jobs[o].pc = "failWrite"]
    /\ UNCHANGED <<enabled, registered, fetch, retry, dexCall, hub, bus, concurrency, nextOrder, rows, orders,
                   createPc, jobs, swaps, cancelPc, incPc, connections, socketOpen,
                   faults>>

\* executeOrder 4-6: the best quote, the swap and the final update, after
\* which the processor returns; without quotes or without a swap the
\* attempt goes on to its failure handling
PoolExecute(o) ==
    /\ o \in DOMAIN pool.jobs
    /\ pool.jobs[o].state = "active" /\ pool.jobs[o].pc = "quote"
    /\ \E prices \in [DexSet -> MockPrices], f \in SwapFactors :
         LET allQuotes == GetAllQuotes(DexNames, pool.orders[o], prices)
             tx == IF allQuotes = <<>> THEN NoSwap
                   ELSE ExecuteSwapTransaction(registered, GetBestQuote(allQuotes),
                                               f, 1)
         IN IF tx = NoSwap
            THEN pool' = [pool EXCEPT !.jobs[o].pc = "failWrite"]
            ELSE pool' = [pool EXCEPT
                            !.orders[o] = RepoUpdate(@,
                                CompletedUpdate(GetBestQuote(allQuotes), tx)),
                            !.jobs[o].pc = "returned"]
    /\ UNCHANGED <<enabled, registered, fetch, retry, dexCall, hub, bus, concurrency, nextOrder, rows, orders,
                   createPc, jobs, swaps, cancelPc, incPc, connections, socketOpen,
                   faults>>

\* handleExecutionFailure: its update, or the update raising (one fault),
\* after which the processor raises
PoolFail(o) ==
    /\ o \in DOMAIN pool.jobs
    /\ pool.jobs[o].state = "active" /\ pool.jobs[o].pc = "failWrite"
    /\ \/ /\ pool' = [pool EXCEPT
                         !.orders[o] = RepoUpdate(@,
                             FailureUpdate([retryCount |-> @.retryCount,
                                            maxRetries |-> @.maxRetries])),
                         !.jobs[o].pc = "raised"]
          /\ UNCHANGED faults
       \/ /\ faults < MaxFaults
          /\ faults' = faults + 1
          /\ pool' = [pool EXCEPT !.jobs[o].pc = "raised"]
    /\ UNCHANGED <<enabled, registered, fetch, retry, dexCall, hub, bus, concurrency, nextOrder, rows, orders,
                   createPc, jobs, swaps, cancelPc, incPc, connections, socketOpen>>

\* the worker hands the outcome of the attempt to the queue
PoolSettle(o) ==
    /\ o \in DOMAIN pool.jobs
    /\ pool.jobs[o].state = "active" /\ pool.jobs[o].pc \in {"returned", "raised"}
    /\ pool' = [pool EXCEPT !.jobs[o] = PoolJob(Settled(@))]
    /\ UNCHANGED <<enabled, registered, fetch, retry, dexCall, hub, bus, concurrency, nextOrder, rows, orders,
                   createPc, jobs, swaps, cancelPc, incPc, connections, socketOpen,
                   faults>>

(***************************************************************************)
(* Several incrementRetryCount calls on one order                          *)
(***************************************************************************)
\* createOrder of a valid request with maxRetries m
RetryCreateOrder(m) ==
    /\ retry.row.status = "none"
    /\ retry' = [retry EXCEPT !.row =
                    PoolRow(RepoCreate(NewOrder([PoolRequest EXCEPT !.maxRetries = m])))]
    /\ UNCHANGED <<enabled, registered, fetch, dexCall, hub, pool, bus, concurrency, nextOrder, rows,
                   orders, createPc, jobs, swaps, cancelPc, incPc, connections,
                   socketOpen, faults>>

\* incrementRetryCount, call c: findById
RetryRead(c) ==
    /\ retry.row.status # "none"
    /\ c \notin DOMAIN retry.calls
    /\ retry' = [retry EXCEPT !.calls =
                    (c :> [pc |-> "write",
                           read |-> [retryCount |-> retry.row.retryCount,
                                     maxRetries |-> retry.row.maxRetries],
                           wrote |-> "none"]) @@ @]
    /\ UNCHANGED <<enabled, registered, fetch, dexCall, hub, pool, bus, concurrency, nextOrder, rows,
                   orders, createPc, jobs, swaps, cancelPc, incPc, connections,
                   socketOpen, faults>>

\* incrementRetryCount, call c: the update built from the order it read
RetryWrite(c) ==
    /\ c \in DOMAIN retry.calls
    /\ retry.calls[c].pc = "write"
    /\ LET upd == IncrementUpdate(retry.calls[c].read) IN
       retry' = [retry EXCEPT
                   !.row = RepoUpdate(@, upd),
                   !.calls[c].pc = "done",
                   !.calls[c].wrote = IF "retryCount" \in DOMAIN upd
                                      THEN "retryCount" ELSE "failed"]
    /\ UNCHANGED <<enabled, registered, fetch, dexCall, hub, pool, bus, concurrency, nextOrder, rows,
                   orders, createPc, jobs, swaps, cancelPc, incPc, connections,
                   socketOpen, faults>>

(***************************************************************************)
(* The system                                                              *)
(***************************************************************************)
\* order creation and the processing of jobs
Pipeline ==
    \/ \E req \in Requests : CreateOrder(req, "http")
    \/ \E o \in OrderIds : EnqueueJob(o)
    \/ \E j \in JobIds : Lease(j)
    \/ \E j \in JobIds : Settle(j)
    \/ \E j \in JobIds : Start(j)
    \/ \E j \in JobIds : Load(j)
    \/ \E j \in JobIds : Mark(j)
    \/ \E j \in JobIds : Quote(j)
    \/ \E j \in JobIds : Swap(j)
    \/ \E j \in JobIds : Final(j)
    \/ \E j \in JobIds : FailRead(j)
    \/ \E j \in JobIds : FailWrite(j)
    \/ \E j \in JobIds : Finish(j)

\* cancelOrder and incrementRetryCount calls
Calls ==
    \/ \E o \in OrderIds : CancelRead(o)
    \/ \E o \in OrderIds : CancelWrite(o)
    \/ \E o \in OrderIds : IncrementRead(o)
    \/ \E o \in OrderIds : IncrementWrite(o)

\* a client on the WebSocket route: execute messages and the close event
Hub ==
    \/ \E req \in Requests \cup WideRequests : CreateOrder(req, "ws")
    \/ \E o \in OrderIds : RegisterConnection(o)
    \/ SocketClose

\* orders created over HTTP, executed by the worker, cancelled and retried
Next == Pipeline \/ Calls

Spec == Init /\ [][Next]_vars

\* orders created over HTTP or the WebSocket route, with status pushes
NextHub == Pipeline \/ Hub

SpecHub == Init /\ [][NextHub]_vars

\* the pipeline with the order:created listener enqueueing its own job
NextListener ==
    \/ Pipeline
    \/ \E o \in OrderIds : HandleOrderCreated(o)

\* the gateways as the composition root constructs them
InitListener == Init /\ \A d \in DexSet : enabled[d]

SpecListener == InitListener /\ [][NextListener]_vars

\* DexService called on its own, for every registration order and every
\* combination of answers
NextDex ==
    \/ \E g \in GatewayOrders, a \in DexAmounts, ans \in QuoteAnswers :
          CallGetAllQuotes(g, a, ans)
    \/ \E g \in GatewayOrders, a \in DexAmounts, ans \in QuoteAnswers :
          CallGetBestQuote(g, a, ans)

SpecDex == Init /\ [][NextDex]_vars

\* WebSocketService called on its own, with two orders and two sockets
NextSockets ==
    \/ \E o \in HubOrders, st \in PushStatuses, r \in BOOLEAN :
          HubSendOrderUpdate(o, st, r)
    \/ \E o \in HubOrders, s \in HubSockets : HubRegisterConnection(o, s)
    \/ \E s \in HubSockets : HubSocketEnds(s)
    \/ \E s \in HubSockets : HubRemoveConnectionsBySocket(s)

SpecSockets == Init /\ [][NextSockets]_vars

\* one worker processing the jobs of several orders
NextPool ==
    \/ \E c \in PoolConcurrency : PoolCreateWorker(c)
    \/ \E o \in PoolOrders : PoolCreateOrder(o)
    \/ \E o \in PoolOrders : PoolLease(o)
    \/ \E o \in PoolOrders : PoolMark(o)
    \/ \E o \in PoolOrders : PoolExecute(o)
    \/ \E o \in PoolOrders : PoolFail(o)
    \/ \E o \in PoolOrders : PoolSettle(o)

SpecPool == Init /\ [][NextPool]_vars

\* the event emitter and its listeners, with events emitted from outside
NextBus ==
    \E type \in EventTypes, o \in OrderIds, ts \in EventTimestamps,
       fails \in SUBSET ListenerSet : EmitEvent(type, o, ts, fails)

SpecBus == Init /\ [][NextBus]_vars

(***************************************************************************)
(* getAllQuotes with its getQuote calls in flight                          *)
(***************************************************************************)
\* getAllQuotes up to `await Promise.all(quotePromises)`: getQuote has been
\* called on every enabled gateway; without enabled gateways it returns []
FetchStart(gateways, amount) ==
    /\ fetch.pc = "idle"
    /\ LET queried == EnabledGateways(gateways) IN
       fetch' = [fetch EXCEPT
                   !.pc = IF queried = <<>> THEN "returned" ELSE "awaiting",
                   !.queried = queried,
                   !.amount = amount,
                   !.promises = [d \in {queried[k] : k \in 1..Len(queried)} |->
                                    [settled |-> FALSE, answer |-> 0]]]
    /\ UNCHANGED <<enabled, registered, retry, dexCall, hub, pool, bus, concurrency, nextOrder,
                   rows, orders, createPc, jobs, swaps, cancelPc, incPc,
                   connections, socketOpen, faults>>

\* the getQuote call of gateway d answers: a quote at price `answer`, or it
\* raises (answer 0) and the catch of the promise turns that into null
FetchAnswer(d, answer) ==
    /\ fetch.pc = "awaiting"
    /\ d \in DOMAIN fetch.promises
    /\ ~fetch.promises[d].settled
    /\ fetch' = [fetch EXCEPT !.promises[d] = [settled |-> TRUE, answer |-> answer]]
    /\ UNCHANGED <<enabled, registered, retry, dexCall, hub, pool, bus, concurrency, nextOrder,
                   rows, orders, createPc, jobs, swaps, cancelPc, incPc,
                   connections, socketOpen, faults>>

\* QUOTE_CONFIG.FETCH_TIMEOUT passes while the call awaits; nothing in
\* getAllQuotes is scheduled on it
FetchDeadline ==
    /\ fetch.pc = "awaiting"
    /\ ~fetch.deadline
    /\ fetch' = [fetch EXCEPT !.deadline = TRUE]
    /\ UNCHANGED <<enabled, registered, retry, dexCall, hub, pool, bus, concurrency, nextOrder,
                   rows, orders, createPc, jobs, swaps, cancelPc, incPc,
                   connections, socketOpen, faults>>

\* Promise.all resolved: every promise is settled, and getAllQuotes returns
\* the quotes that are not null
FetchReturn ==
    /\ fetch.pc = "awaiting"
    /\ \A d \in DOMAIN fetch.promises : fetch.promises[d].settled
    /\ fetch' = [fetch EXCEPT
                   !.pc = "returned",
                   !.result = AllQuotesFrom(fetch.queried, 1, DexOrder(fetch.amount),
                                 [d \in DOMAIN fetch.promises |->
                                     fetch.promises[d].answer])]
    /\ UNCHANGED <<enabled, registered, retry, dexCall, hub, pool, bus, concurrency, nextOrder,
                   rows, orders, createPc, jobs, swaps, cancelPc, incPc,
                   connections, socketOpen, faults>>

\* incrementRetryCount calls on one order, interleaved at their awaits
NextRetry ==
    \/ \E m \in RetryMaxRetriesInputs : RetryCreateOrder(m)
    \/ \E c \in RetryCalls : RetryRead(c)
    \/ \E c \in RetryCalls : RetryWrite(c)

SpecRetry == Init /\ [][NextRetry]_vars

\* the pipeline of an ExecutionService constructed with any set of gateways
InitExec == \E gateways \in SUBSET DexSet : InitWith(gateways)

SpecExec == InitExec /\ [][Pipeline]_vars

\* one getAllQuotes call; a gateway may answer at any time or never
NextFetch ==
    \/ \E g \in GatewayOrders, a \in DexAmounts : FetchStart(g, a)
    \/ \E d \in DexSet, answer \in {0} \cup MockPrices : FetchAnswer(d, answer)
    \/ FetchDeadline
    \/ FetchReturn

SpecFetch == Init /\ [][NextFetch]_vars

\* time passes and a resolved Promise.all is resumed; no gateway is obliged
\* to answer
SpecFetchLive == SpecFetch /\ WF_vars(FetchDeadline) /\ WF_vars(FetchReturn)

(***************************************************************************)
(* Properties                                                              *)
(***************************************************************************)
\* the step is one of the processor of job j
JobStep(j) == jobs[j].state = "active" /\ jobs'[j] # jobs[j]

\* C1: once the stored status of an order is completed, failed or
\* cancelled, no step changes it to a different value while the order is
\* stored.
C1_TerminalSticky ==
    [][\A o \in rows \cap rows' :
         orders[o].status \in TerminalStatuses
            => orders'[o].status = orders[o].status]_vars

\* C2: for every completed order exactly one executeSwap call succeeded over
\* its whole history, on exactly one venue.
C2_ExactlyOneSwap ==
    \A o \in OrderIds :
        orders[o].status = "completed"
           => /\ TotalSwaps(o) = 1
              /\ Cardinality({d \in DexSet : swaps[o][d] > 0}) = 1

\* C3: an attempt that began on an order whose stored status was already
\* completed changes no field of the order, makes no executeSwap call and
\* delivers no push.
C3_RedeliveryNoOp ==
    [][\A j \in JobIds :
         (JobStep(j) /\ jobs[j].atLease.status = "completed")
            => /\ orders'[j[1]] = orders[j[1]]
               /\ swaps'[j[1]] = swaps[j[1]]
               /\ jobs'[j].state = "active" => jobs'[j].pushes = jobs[j].pushes]_vars

\* C4: when an order was cancelled before the first lease of its job, its
\* stored status is cancelled, and the attempt makes no status update and no
\* executeSwap call.
C4_CancelBeforeLease ==
    [][\A j \in JobIds :
         (JobStep(j) /\ jobs[j].attemptsMade = 0
                     /\ jobs[j].atLease.error = "cancelled")
            => /\ jobs[j].atLease.status = "cancelled"
               /\ orders'[j[1]].status = orders[j[1]].status
               /\ swaps'[j[1]] = swaps[j[1]]]_vars

\* C5: when every attempt of the job of an order has failed and the queue
\* makes no further attempt, the order is failed with retryCount =
\* maxRetries and an error message that tells the retry exhaustion.
C5_ExhaustedIsFailed ==
    \A o \in OrderIds :
        (/\ o \in rows
         /\ jobs[<<o, "svc">>].state = "failed"
         /\ TotalSwaps(o) = 0
         /\ faults = 0)
           => /\ orders[o].status = "failed"
              /\ orders[o].retryCount = orders[o].maxRetries
              /\ orders[o].errorMessage.kind = "exhausted"

\* C6: no step decreases retryCount, and the failure handling of a failed
\* attempt increases it by exactly 1.
C6_RetryMonotone ==
    [][/\ \A o \in rows \cap rows' : orders'[o].retryCount >= orders[o].retryCount
       /\ \A j \in JobIds :
            (jobs[j].pc = "failWrite" /\ jobs'[j].pc = "finish")
               => orders'[j[1]].retryCount = orders[j[1]].retryCount + 1]_vars

\* C7: every order has retryCount <= maxRetries.
C7_RetryCountBounded ==
    \A o \in rows : orders[o].retryCount <= orders[o].maxRetries

\* an incrementRetryCount call at the limit has been refused
C7_Witness ==
    \E o \in rows :
        /\ orders[o].retryCount = orders[o].maxRetries
        /\ orders[o].retryCount > 0
        /\ orders[o].errorMessage.kind = "maxretries"

\* C8: every completed order has transactionHash, selectedDex,
\* executedPrice > 0 and confirmedAt set.
C8_CompletedHasResult ==
    \A o \in rows :
        orders[o].status = "completed"
           => /\ orders[o].transactionHash # 0
              /\ orders[o].selectedDex # "null"
              /\ orders[o].executedPrice > 0
              /\ orders[o].confirmedAt # 0

\* an order has been completed on a retry after a failed attempt
C8_Witness ==
    \E o \in rows :
        /\ orders[o].status = "completed"
        /\ orders[o].errorMessage.kind = "attempt"

\* C9: at no time are two jobs of one order being processed, and an order
\* never has a second job waiting or in process beside its first.
C9_SerialPerOrder ==
    \A o \in OrderIds :
        Cardinality({k \in JobKinds :
                        jobs[<<o, k>>].state \in {"waiting", "active"}}) <= 1

\* C10: when an order is cancelled while its job is executing, the attempt
\* makes no further status update and no executeSwap call.
C10_CancelWhileExecuting ==
    [][\A j \in JobIds :
         (/\ JobStep(j)
          /\ jobs[j].atLease.error # "cancelled"
          /\ orders[j[1]].errorMessage.kind = "cancelled"
          /\ orders[j[1]].status \in {"failed", "cancelled"})
            => /\ orders'[j[1]].status = orders[j[1]].status
               /\ swaps'[j[1]] = swaps[j[1]]]_vars

C12_TerminalErrorAcked ==
    \A j \in JobIds :
        jobs[j].err \in {"notfound", "amount", "completed"}
           => jobs[j].pc # "raised"

\* C13: a createOrder call that failed at the enqueue has left no order row,
\* and every row of a finished createOrder call has had its job enqueued.
C13_NoRowWithoutJob ==
    \A o \in OrderIds :
        /\ createPc[o] = "failed" => o \notin rows
        /\ (o \in rows /\ createPc[o] \in {"register", "done", "failed"})
              => jobs[<<o, "svc">>].state # "none"

\* C14: a createOrder call with tokenIn = tokenOut or amount <= 0 is rejected
\* and has no side effect: no order row is created and no job enqueued.
C14_InvalidRequestNoEffect ==
    [][nextOrder < Len(OrderSeq) =>
         \A req \in Requests : \A via \in {"http", "ws"} :
            ((req.amount <= 0 \/ req.tokenIn = req.tokenOut) /\ CreateOrder(req, via))
               => /\ createPc'[OrderSeq[nextOrder + 1]] = "rejected"
                  /\ UNCHANGED <<nextOrder, rows, orders, jobs>>]_vars

\* a createOrder call has been rejected and no row or job exists
C14_Witness ==
    \E o \in OrderIds :
        /\ createPc[o] = "rejected"
        /\ o \notin rows
        /\ \A k \in JobKinds : jobs[<<o, k>>].state = "none"

\* C15: every stored order has 0 <= slippageTolerance <= 100 (percent) and
\* 0 <= maxRetries <= 10: requests outside these ranges are rejected.
C15_StoredRanges ==
    \A o \in rows :
        /\ 0 <= orders[o].slippageTolerance
        /\ orders[o].slippageTolerance <= 100 * 20
        /\ 0 <= orders[o].maxRetries
        /\ orders[o].maxRetries <= 10

\* C16: for an order created with slippageTolerance = 0 every quote has
\* minimumAmountOut = amountOut, and no swap with an actual amountOut below
\* the quoted amountOut succeeds.
C16_ZeroSlippageBound ==
    \A j \in JobIds :
        (/\ j[1] \in rows
         /\ orders[j[1]].requestedSlippage = 0
         /\ jobs[j].quote # NoQuote)
           => /\ jobs[j].quote.minimumAmountOut = jobs[j].quote.amountOut * FactorScale
              /\ jobs[j].tx # NoSwap
                    => jobs[j].tx.amountOut >= jobs[j].quote.amountOut * FactorScale

\* C17: getAllQuotes never fails and returns exactly one quote for each
\* enabled adapter whose getQuote succeeded, whatever the other adapters
\* answered; it queries no disabled adapter.
C17_AllQuotesExact ==
    dexCall.op = "getAllQuotes"
       => LET ok == {d \in DexSet : enabled[d] /\ dexCall.answers[d] # 0}
              q == dexCall.quotes
          IN /\ dexCall.error = "none"
             /\ Len(q) = Cardinality(ok)
             /\ \A d \in ok : \E i \in 1..Len(q) :
                   q[i] = GetQuote(d, DexOrder(dexCall.amount), dexCall.answers[d])
             /\ \A d \in dexCall.queried : enabled[d]

\* a getAllQuotes call in which one enabled adapter failed and the other
\* answered has returned the one quote
C17_Witness ==
    /\ dexCall.op = "getAllQuotes"
    /\ \E d1, d2 \in DexSet :
          /\ enabled[d1] /\ enabled[d2]
          /\ dexCall.answers[d1] = 0 /\ dexCall.answers[d2] # 0
    /\ Len(dexCall.quotes) = 1

C19_BestQuoteOrder ==
    LET rank(d) == IF d = "meteora" THEN 1 ELSE 2
        before(a, b) ==
            \/ a.amountOut > b.amountOut
            \/ a.amountOut = b.amountOut /\ a.estimatedFee < b.estimatedFee
            \/ /\ a.amountOut = b.amountOut /\ a.estimatedFee = b.estimatedFee
               /\ rank(a.dexName) < rank(b.dexName)
        q == dexCall.quotes
    IN (dexCall.op = "getBestQuote" /\ dexCall.error = "none")
          => /\ dexCall.best = q[1]
             /\ \A i, k \in 1..Len(q) : i < k => before(q[i], q[k])

\* C20: when no adapter is enabled the quote step fails with the no-quotes
\* error; the attempt then makes no executeSwap call, its failure handling
\* puts the order back to pending while retryCount < maxRetries, and the
\* processor raises so that the queue retries.
C20_NoQuotesRetriable ==
    [][\A j \in JobIds :
         /\ (JobStep(j) /\ jobs[j].pc = "quote" /\ \A d \in DexSet : ~enabled[d])
               => jobs'[j].err = "noquotes" /\ jobs'[j].pc = "failRead"
         /\ (JobStep(j) /\ jobs[j].err = "noquotes")
               => /\ jobs[j].tx = NoSwap
                  /\ swaps'[j[1]] = swaps[j[1]]
                  /\ (/\ jobs[j].pc = "failWrite" /\ jobs'[j].pc = "finish"
                      /\ orders[j[1]].retryCount < orders[j[1]].maxRetries)
                        => orders'[j[1]].status = "pending"
                  /\ jobs[j].pc = "finish" => jobs'[j].pc = "raised"]_vars

\* an attempt without quotes has ended with the processor raising and the
\* order pending
C20_Witness ==
    \E j \in JobIds :
        /\ jobs[j].err = "noquotes"
        /\ jobs[j].pc = "raised"
        /\ orders[j[1]].status = "pending"
        /\ orders[j[1]].errorMessage.kind = "attempt"

\* C21: for an order that executes successfully on the first attempt of its
\* job, with its subscriber registered from the first push to the last, the
\* pushes of the attempt are exactly processing, routing, completed, in this
\* order.
C21_PushSequence ==
    \A j \in JobIds :
        (/\ jobs[j].pc = "returned"
         /\ jobs[j].attemptsMade = 0
         /\ jobs[j].pushes # <<>>
         /\ jobs[j].pushes[1] = "processing"
         /\ jobs[j].pushes[Len(jobs[j].pushes)] = "completed")
           => jobs[j].pushes = <<"processing", "routing", "completed">>

\* C22: a job.updateProgress call that raises never makes the processor
\* raise: no attempt ends raising on a progress report, and an attempt whose
\* swap and final update succeeded ends with the processor returning.
C22_ProgressFailureHarmless ==
    \A j \in JobIds :
        jobs[j].pc = "raised"
           => /\ jobs[j].err # "progress"
              /\ ~jobs[j].success

\* C23: a sendOrderUpdate call delivers its message only when the orderId
\* has an entry whose socket is OPEN; when the delivery raises, the entry of
\* that orderId is removed and the call does not raise to its caller; the
\* entries of the other orders and the sockets are unchanged.
C23_SendOrderUpdate ==
    [][\A o \in HubOrders, st \in PushStatuses, r \in BOOLEAN :
         HubSendOrderUpdate(o, st, r)
            => LET socket == HubGet(hub, o)
                   live == socket # "none" /\ HubReadyState(hub, socket) = OPEN
               IN /\ hub'.last.delivered = (live /\ ~r)
                  /\ ~hub'.last.raised
                  /\ (live /\ r) => HubGet(hub', o) = "none"
                  /\ ~(live /\ r) => HubGet(hub', o) = socket
                  /\ \A p \in HubOrders \ {o} :
                        HubGet(hub', p) = HubGet(hub, p)
                  /\ hub'.closed = hub.closed]_vars

\* a delivery has raised: the entry of its order is gone and the other
\* order still has its entry on the same open socket
C23_Witness ==
    \E o, p \in HubOrders : \E s \in HubSockets :
        /\ o # p
        /\ hub.last.op = "sendOrderUpdate" /\ hub.last.orderId = o
        /\ hub.last.socket = s
        /\ ~hub.last.delivered
        /\ HubGet(hub, o) = "none"
        /\ HubGet(hub, p) = s
        /\ HubReadyState(hub, s) = OPEN

\* C24: once the close event of the client socket has been handled, no
\* orderId of the hub maps to that socket, however the socket's execute
\* messages interleave with the close event.
C24_NoEntryAfterClose ==
    ~socketOpen => \A o \in OrderIds : ~connections[o]

\* C25: at every instant the number of orders whose stored status is
\* processing is at most the concurrency the worker was created with.
C25_ProcessingBounded ==
    pool.concurrency > 0
       => Cardinality({o \in DOMAIN pool.orders :
                            pool.orders[o].status = "processing"})
             <= pool.concurrency

\* C26: the audit log of every order whose creation has returned begins with
\* the one order:created record, is strictly increasing in its timestamps,
\* and ends with order:confirmed once the order is completed and with
\* order:failed once it is failed.
C26_AuditLog ==
    \A o \in rows :
        createPc[o] \in {"register", "done"}
           => LET log == bus.orderHistory[o] IN
              /\ log # <<>>
              /\ log[1].eventType = "ORDER_CREATED"
              /\ Cardinality({i \in 1..Len(log) :
                                 log[i].eventType = "ORDER_CREATED"}) = 1
              /\ \A i, k \in 1..Len(log) :
                    i < k => log[i].timestamp < log[k].timestamp
              /\ orders[o].status = "completed"
                    => log[Len(log)].eventType = "ORDER_CONFIRMED"
              /\ orders[o].status = "failed"
                    => log[Len(log)].eventType = "ORDER_FAILED"

\* C27: an exception raised inside a listener is caught and logged by that
\* listener and never reaches the caller of emit; every listener registered
\* for the event is called, whichever of them raised.
C27_ListenerIsolation ==
    bus.last.type # "none"
       => /\ ~bus.last.propagated
          /\ bus.last.logged = bus.last.raised
          /\ bus.last.called = {l \in ListenerSet : bus.last.type \in ListenerEvents[l]}

\* the order listener raised on an order:created event; the execution
\* listener, called after it, has enqueued its job
C27_Witness ==
    \E o \in OrderIds :
        /\ bus.last.type = "order:created" /\ bus.last.orderId = o
        /\ bus.last.raised = {"order"}
        /\ bus.orderHistory[o] = <<>>
        /\ jobs[<<o, "evt">>].state = "waiting"

\* C28: GET /api/orders/:id answers 200 with the order when a row with that
\* id exists and 404 when none exists.
C28_GetOrderReply ==
    \A o \in OrderIds :
        /\ o \in rows => /\ GetOrderHandler(o).code = 200
                         /\ GetOrderHandler(o).data = orders[o]
        /\ o \notin rows => GetOrderHandler(o).code = 404

\* C29: a createOrder call over HTTP that failed because the job could not
\* be enqueued is answered with status 503.
C29_QueueUnavailableIs503 ==
    \A o \in OrderIds :
        createPc[o] = "failed" => CreateOrderHandler(createPc[o]) = 503

\* C30: a status update (updateOrderStatus, built on the store's status
\* update) of an order whose stored status is completed, failed or cancelled
\* fails with an error and leaves the order unchanged.
C30_UpdateStatusGuard ==
    [][\A j \in JobIds :
         (/\ JobStep(j) /\ jobs[j].pc = "mark"
          /\ j[1] \in rows
          /\ orders[j[1]].status \in TerminalStatuses)
            => /\ orders'[j[1]] = orders[j[1]]
               /\ jobs'[j].pc = "failRead"]_vars

\* C31: two incrementRetryCount calls on the same order that are both between
\* their read and their update never hold the same retryCount value, and the
\* stored retryCount equals the number of calls that wrote an incremented
\* retryCount: no increment is lost.
C31_NoLostUpdate ==
    /\ \A c, d \in DOMAIN retry.calls :
          (c # d /\ retry.calls[c].pc = "write" /\ retry.calls[d].pc = "write")
             => retry.calls[c].read.retryCount # retry.calls[d].read.retryCount
    /\ retry.row.retryCount =
          Cardinality({c \in DOMAIN retry.calls : retry.calls[c].wrote = "retryCount"})

\* C32: a getAllQuotes call that awaits its getQuote calls returns once the
\* quote-fetch deadline has passed, with the quotes of the gateways that
\* answered, even when an enabled gateway never answers.
C32_FetchTerminates ==
    (fetch.pc = "awaiting" /\ fetch.deadline) ~> (fetch.pc = "returned")

\* C33: executeSwap returns a transaction only when its actual amountOut is
\* at least the minimumAmountOut of the quote, and otherwise the attempt goes
\* to its failure handling without a swap being counted; the final update
\* that completes an order is made with such a transaction.
C33_SwapAboveMinimum ==
    [][\A j \in JobIds :
         /\ (jobs[j].pc = "swap" /\ jobs'[j].pc = "final")
               => /\ jobs'[j].tx.amountOut >= jobs[j].quote.minimumAmountOut
                  /\ jobs'[j].quote = jobs[j].quote
         /\ (jobs[j].pc = "swap" /\ jobs'[j].pc = "failRead") => swaps' = swaps
         /\ (jobs[j].pc = "final" /\ jobs'[j].success)
               => /\ orders'[j[1]].status = "completed"
                  /\ jobs[j].tx.amountOut >= jobs[j].quote.minimumAmountOut]_vars

\* an order was completed with a quote whose minimum is above what the
\* lowest swap factor yields: the validation had swaps to reject
C33_Witness ==
    \E j \in JobIds :
        /\ jobs[j].pc = "finish" /\ jobs[j].success
        /\ orders[j[1]].status = "completed"
        /\ jobs[j].quote.minimumAmountOut > jobs[j].quote.amountOut * MinSwapFactor

\* C34: a job is picked up only while it has made fewer than
\* QUEUE_MAX_ATTEMPTS attempts; an attempt that raised puts the job back to
\* waiting while attempts remain and makes it failed at the limit; a failed
\* or completed job is never changed again.
C34_AttemptsBounded ==
    [][\A j \in JobIds :
         /\ (jobs[j].state = "waiting" /\ jobs'[j].state = "active")
               => jobs[j].attemptsMade < QUEUE_MAX_ATTEMPTS
         /\ (jobs[j].pc = "raised" /\ jobs'[j] # jobs[j])
               => /\ jobs'[j].attemptsMade = jobs[j].attemptsMade + 1
                  /\ jobs'[j].state =
                        IF jobs'[j].attemptsMade < QUEUE_MAX_ATTEMPTS
                        THEN "waiting" ELSE "failed"
         /\ jobs[j].state \in {"failed", "completed"} => jobs'[j] = jobs[j]]_vars

\* a job has failed after its last attempt
C34_Witness ==
    \E j \in JobIds :
        jobs[j].state = "failed" /\ jobs[j].attemptsMade = QUEUE_MAX_ATTEMPTS

\* C35: the status stored on every order row is one of pending, processing,
\* completed, failed and cancelled; routing and submitted are never stored.
C35_StatusInCheckSet ==
    \A o \in rows : orders[o].status \in StatusCheck

\* an attempt is between its quote and its swap, the stages called routing
\* and submitted, and the stored status is processing
C35_Witness ==
    \E j \in JobIds :
        /\ jobs[j].state = "active" /\ jobs[j].pc = "swap"
        /\ j[1] \in rows
        /\ orders[j[1]].status = "processing"

\* C36: the swap of an attempt is executed on the venue of the selected
\* quote and on no other; the final update stores that venue as selectedDex,
\* which is also the venue of the transaction; when no gateway is registered
\* under the name of the quote the attempt goes to its failure handling
\* without a swap.
C36_SwapOnSelectedVenue ==
    [][\A j \in JobIds :
         LET o == j[1]
             d == jobs[j].quote.dexName
         IN /\ (jobs[j].pc = "swap" /\ jobs'[j].pc = "final")
                  => /\ d \in registered
                     /\ jobs'[j].tx.dexName = d
                     /\ swaps' = [swaps EXCEPT ![o][d] = @ + 1]
            /\ (jobs[j].pc = "swap" /\ jobs'[j] # jobs[j] /\ d \notin registered)
                  => /\ jobs'[j].pc = "failRead"
                     /\ swaps' = swaps
            /\ (jobs[j].pc = "final" /\ jobs'[j].success)
                  => /\ orders'[o].selectedDex = d
                     /\ jobs[j].tx.dexName = d]_vars

\* both gateways are enabled and one is not registered with the
\* ExecutionService: an attempt whose best quote came from the unregistered
\* venue failed, and a later attempt completed the order on the other venue
C36_Witness ==
    \E o \in rows :
        /\ \A d \in DexSet : enabled[d]
        /\ registered # DexSet
        /\ faults = 0
        /\ orders[o].slippageTolerance = DEFAULT_SLIPPAGE
        /\ orders[o].status = "completed"
        /\ orders[o].selectedDex \in registered
        /\ orders[o].errorMessage.kind = "attempt"

PushCount(pushes, statuses) ==
    Cardinality({i \in 1..Len(pushes) : pushes[i] \in statuses})

\* C38: a job attempt sends at most one completed or failed push, and an
\* attempt that raised while its subscriber was receiving pushes has sent
\* exactly one failed push.
C38_OneTerminalPush ==
    \A j \in JobIds :
        /\ PushCount(jobs[j].pushes, {"completed", "failed"}) <= 1
        /\ (jobs[j].pc = "raised" /\ jobs[j].pushes # <<>> /\ socketOpen)
              => PushCount(jobs[j].pushes, {"failed"}) = 1

\* C39: while the handler of an execute message has not yet registered the
\* socket for the order it created and the socket is open, the worker has not
\* attempted any push for that order: its job is waiting, or its first
\* attempt has not reached the processing push.
C39_RegisteredBeforePush ==
    \A o \in OrderIds :
        (createPc[o] = "register" /\ socketOpen)
           => LET job == jobs[<<o, "svc">>] IN
              /\ job.attemptsMade = 0
              /\ \/ job.state = "waiting"
                 \/ job.state = "active" /\ job.pc = "start"

====
